---- MODULE Spec2Model ----
(***************************************************************************)
(* One invocation of check_correctness(check_program, timeout) of          *)
(* evaluation/utils_execute.py: the supervisor (the caller's control       *)
(* flow), the worker process running unsafe_execute, and the Timer thread  *)
(* that calls p.terminate.                                                 *)
(*                                                                         *)
(* ProgramText is abstracted by what exec(code) does with it: one          *)
(* host-affecting operation, then the way the execution ends, together     *)
(* with the data the handlers of unsafe_execute read from the raised       *)
(* error (class name, args, lineno, traceback line).  The program leaves   *)
(* the harness's own objects and the SIGTERM disposition alone.            *)
(***************************************************************************)
EXTENDS Integers, Sequences, FiniteSets, TLC

\* Largest number of lines of code.split('\n') that is enumerated.
MaxLines == 2

VARIABLES
    program,   \* check_program: the behaviour of the text under exec
    pc,        \* position of the supervisor in check_correctness
    result,    \* manager.list(): the shared result channel
    timer,     \* the Timer: "unset", "armed", "fired", "cancelled"
    wstatus,   \* the process p: "unstarted", "running", "exited", "terminated"
    wpc,       \* position of the worker in unsafe_execute
    wproc,     \* process-global state of the worker process
    exc,       \* the error exec(code) raised, NoExc when none
    host,      \* host state outside the two processes
    callerCwd, \* os.getcwd() of the supervising process
    ret        \* value returned by check_correctness, <<>> before the return

vars == <<program, pc, result, timer, wstatus, wpc, wproc, exc, host, callerCwd, ret>>

----------------------------------------------------------------------------
\* The inputs.

\* What the text does before it ends: nothing, or one host-affecting call.
Ops == {"none", "os.remove", "os.chmod", "subprocess.Popen", "os.chdir", "stdin.read"}

\* How exec(code) ends: normal completion, a raised Exception, a SyntaxError
\* raised while the text runs, a BaseException that is no Exception
\* (SystemExit), never, or a SyntaxError of the text itself ("parse": the text
\* does not compile and nothing of it runs).
Endings == {"return", "raise", "syntax", "exit", "hang", "parse"}

\* Class names of the runtime errors enumerated.
ErrorClasses == {"ZeroDivisionError", "AssertionError"}

\* e.lineno of a SyntaxError: None (<<>>) or an integer (<<n>>).
SyntaxLinenos == {<<>>} \cup {<<n>> : n \in 0..(MaxLines + 1)}

\* e.args of the raised error: empty, or one message.
ArgsValues == {<<>>, <<"msg">>}

\* tb_lineno is the line of the last traceback entry, which is a frame of the
\* text or of a function the text called; text_lineno is the line of the
\* deepest frame of the text.  A SyntaxError of the text itself has a message
\* and the line the parser names: None or a line from 1 on, which can lie past
\* the last line of code.split('\n') (the parser also ends lines at '\r').
Programs ==
    {p \in [nlines : 1..MaxLines,
            op : Ops,
            ending : Endings,
            cls : ErrorClasses,
            args : ArgsValues,
            lineno : SyntaxLinenos,
            tb_lineno : 1..(MaxLines + 1),
            text_lineno : 1..MaxLines] :
        /\ p.text_lineno <= p.nlines
        /\ p.ending = "parse" => (p.op = "none" /\ p.args # <<>> /\ p.lineno # <<0>>)}

\* The names reliability_guard sets to None.
DisabledOps ==
    {"builtins.exit", "builtins.quit", "os.kill", "os.system", "os.putenv",
     "os.remove", "os.removedirs", "os.rmdir", "os.fchdir", "os.setuid", "os.fork",
     "os.forkpty", "os.killpg", "os.rename", "os.renames", "os.truncate",
     "os.replace", "os.unlink", "os.fchmod", "os.fchown", "os.chmod", "os.chown",
     "os.chroot", "os.lchflags", "os.lchmod", "os.lchown", "os.getcwd", "os.chdir",
     "shutil.rmtree", "shutil.move", "shutil.chown", "subprocess.Popen", "help"}

InitCwd == "caller_dir"

InitHost == [files |-> {"data"}, modes |-> {}, children |-> 0, tempdirs |-> {}]

----------------------------------------------------------------------------
\* Entries of the result channel.

Passed == [kind |-> "passed", errorKind |-> "", lineNumber |-> <<>>, detail |-> "", line |-> 0]

FailedEntry(cls, ln, detail) ==
    [kind |-> "failed", errorKind |-> cls, lineNumber |-> ln, detail |-> detail, line |-> 0]

\* "Offending line: {}".format(code.split('\n')[i - 1]), the line named by its
\* 1-based number i.
OffendingEntry(i) ==
    [kind |-> "offending", errorKind |-> "", lineNumber |-> <<>>, detail |-> "", line |-> i]

TimedOut == [kind |-> "timed out", errorKind |-> "", lineNumber |-> <<>>, detail |-> "", line |-> 0]

\* No error has been raised.
NoExc == [cls |-> "", args |-> <<>>, lineno |-> <<>>, tb_lineno |-> 0]

----------------------------------------------------------------------------
Init ==
    /\ program \in Programs
    /\ pc = "start"
    /\ result = <<>>
    /\ timer = "unset"
    /\ wstatus = "unstarted"
    /\ wpc = "exec"
    /\ wproc = [disabled |-> {}, scopes |-> <<>>, cwd |-> InitCwd]
    /\ exc = NoExc
    /\ host = InitHost
    /\ callerCwd = InitCwd
    /\ ret = <<>>

\* p.start(): the process begins unsafe_execute with a copy of the caller's
\* process state.
Start ==
    /\ pc = "start"
    /\ pc' = "timer_start"
    /\ wstatus' = "running"
    /\ wproc' = [disabled |-> {}, scopes |-> <<>>, cwd |-> callerCwd]
    /\ UNCHANGED <<program, result, timer, wpc, exc, host, callerCwd, ret>>

----------------------------------------------------------------------------
\* The worker process: unsafe_execute(code, result, timeout).

Running(at) == wstatus = "running" /\ wpc = at

\* The error object the handlers read.
Error(cls, args, lineno) ==
    [cls |-> cls, args |-> args, lineno |-> lineno, tb_lineno |-> program.tb_lineno]

\* What one host-affecting call of the text does in the worker process: "raise"
\* with the class raised, or "ok".  A name set to None is not callable; a read of
\* a WriteOnlyStringIO raises OSError; a read of the stdin the process was given
\* returns or raises EOFError.
CallOutcomes(op) ==
    IF op \in wproc.disabled THEN {"TypeError"}
    ELSE IF op = "stdin.read"
         THEN IF \E i \in 1..Len(wproc.scopes) : wproc.scopes[i] = "swallow_io"
              THEN {"OSError"}
              ELSE {"ok", "EOFError"}
         ELSE {"ok"}

\* The effect of a call that went through on the host.
HostAfter(op) ==
    CASE op = "os.remove" -> [host EXCEPT !.files = {}]
      [] op = "os.chmod" -> [host EXCEPT !.modes = {"data"}]
      [] op = "subprocess.Popen" -> [host EXCEPT !.children = 1]
      [] OTHER         -> host

\* ExecOp with the text run in the caller's own process (a thread in place of
\* a process): os.chdir moves the caller.
ExecOp_InCaller ==
    /\ Running("exec")
    /\ program.ending # "parse"
    /\ \E out \in CallOutcomes(program.op) :
         IF out = "ok"
         THEN /\ host' = HostAfter(program.op)
              /\ wproc' = IF program.op = "os.chdir"
                          THEN [wproc EXCEPT !.cwd = "elsewhere"]
                          ELSE wproc
              /\ callerCwd' = IF program.op = "os.chdir" THEN "elsewhere" ELSE callerCwd
              /\ wpc' = "body"
              /\ exc' = exc
         ELSE /\ exc' = Error(out, <<"msg">>, <<>>)
              /\ wpc' = "exception_handler"
              /\ UNCHANGED <<host, wproc, callerCwd>>
    /\ UNCHANGED <<program, pc, result, timer, wstatus, ret>>

\* exec(code) of a text that does not compile: SyntaxError before any of it
\* runs.
ExecParseError ==
    /\ Running("exec")
    /\ program.ending = "parse"
    /\ exc' = Error("SyntaxError", program.args, program.lineno)
    /\ wpc' = "syntax_handler"
    /\ UNCHANGED <<program, pc, result, timer, wstatus, wproc, host, callerCwd, ret>>

\* exec(code), first part: the text makes its call.
ExecOp ==
    /\ Running("exec")
    /\ program.ending # "parse"
    /\ \E out \in CallOutcomes(program.op) :
         IF out = "ok"
         THEN /\ host' = HostAfter(program.op)
              /\ wproc' = IF program.op = "os.chdir"
                          THEN [wproc EXCEPT !.cwd = "elsewhere"]
                          ELSE wproc
              /\ wpc' = "body"
              /\ exc' = exc
         ELSE /\ exc' = Error(out, <<"msg">>, <<>>)
              /\ wpc' = "exception_handler"
              /\ UNCHANGED <<host, wproc>>
    /\ UNCHANGED <<program, pc, result, timer, wstatus, callerCwd, ret>>

\* exec(code) returns: control reaches result.append("passed").
ExecReturn ==
    /\ Running("body")
    /\ program.ending = "return"
    /\ wpc' = "append_passed"
    /\ UNCHANGED <<program, pc, result, timer, wstatus, wproc, exc, host, callerCwd, ret>>

\* exec(code) raises an Exception that is no SyntaxError.
ExecRaise ==
    /\ Running("body")
    /\ program.ending = "raise"
    /\ exc' = Error(program.cls, program.args, <<>>)
    /\ wpc' = "exception_handler"
    /\ UNCHANGED <<program, pc, result, timer, wstatus, wproc, host, callerCwd, ret>>

\* exec(code) raises SyntaxError.
ExecSyntaxError ==
    /\ Running("body")
    /\ program.ending = "syntax"
    /\ exc' = Error("SyntaxError", program.args, program.lineno)
    /\ wpc' = "syntax_handler"
    /\ UNCHANGED <<program, pc, result, timer, wstatus, wproc, host, callerCwd, ret>>

\* exec(code) raises a BaseException that no except clause of unsafe_execute
\* names (SystemExit): it leaves unsafe_execute.
ExecExit ==
    /\ Running("body")
    /\ program.ending = "exit"
    /\ exc' = Error("SystemExit", <<>>, <<>>)
    /\ wpc' = "uncaught"
    /\ UNCHANGED <<program, pc, result, timer, wstatus, wproc, host, callerCwd, ret>>

\* AppendPassed with the append left out.
AppendPassed_Silent ==
    /\ Running("append_passed")
    /\ wpc' = "end"
    /\ UNCHANGED <<program, pc, result, timer, wstatus, wproc, exc, host, callerCwd, ret>>

\* result.append("passed")
AppendPassed ==
    /\ Running("append_passed")
    /\ result' = Append(result, Passed)
    /\ wpc' = "end"
    /\ UNCHANGED <<program, pc, timer, wstatus, wproc, exc, host, callerCwd, ret>>

\* except SyntaxError: detail = e.args[0], line_number = e.lineno, first append.
\* e.args[0] of an error without args raises IndexError, which leaves
\* unsafe_execute.
SyntaxHandler ==
    /\ Running("syntax_handler")
    /\ IF exc.args = <<>>
       THEN /\ wpc' = "uncaught"
            /\ result' = result
       ELSE /\ result' = Append(result, FailedEntry(exc.cls, exc.lineno, exc.args[1]))
            /\ wpc' = "syntax_offending"
    /\ UNCHANGED <<program, pc, timer, wstatus, wproc, exc, host, callerCwd, ret>>

\* lines[i] of a Python list of n lines, as the 1-based number of the line
\* found; 0 stands for IndexError.  A negative index counts from the end.
ListIndex(n, i) ==
    IF i >= 0 THEN (IF i < n THEN i + 1 ELSE 0)
    ELSE (IF n + i >= 0 THEN n + i + 1 ELSE 0)

\* except SyntaxError: the second append, code.split('\n')[line_number - 1].
\* None - 1 raises TypeError and an index past the list raises IndexError; both
\* leave unsafe_execute.
SyntaxOffending ==
    /\ Running("syntax_offending")
    /\ IF exc.lineno = <<>>
       THEN /\ wpc' = "uncaught"
            /\ result' = result
       ELSE LET l == ListIndex(program.nlines, exc.lineno[1] - 1) IN
            IF l = 0
            THEN /\ wpc' = "uncaught"
                 /\ result' = result
            ELSE /\ result' = Append(result, OffendingEntry(l))
                 /\ wpc' = "end"
    /\ UNCHANGED <<program, pc, timer, wstatus, wproc, exc, host, callerCwd, ret>>

\* str(e)
Str(e) == IF e.args = <<>> THEN "" ELSE e.args[1]

\* ExceptionHandler with the offending line appended ahead of the message.
ExceptionHandler_OffendingFirst ==
    /\ Running("exception_handler")
    /\ result' = Append(Append(result, OffendingEntry(exc.tb_lineno)),
                        FailedEntry(exc.cls, <<exc.tb_lineno>>, Str(exc)))
    /\ wpc' = "end"
    /\ UNCHANGED <<program, pc, timer, wstatus, wproc, exc, host, callerCwd, ret>>

\* except Exception: detail = str(e), line_number from the last traceback
\* entry, first append.
ExceptionHandler ==
    /\ Running("exception_handler")
    /\ result' = Append(result, FailedEntry(exc.cls, <<exc.tb_lineno>>, Str(exc)))
    /\ wpc' = "exception_offending"
    /\ UNCHANGED <<program, pc, timer, wstatus, wproc, exc, host, callerCwd, ret>>

\* except Exception: if line_number <= len(code.split('\n')), the second append.
ExceptionOffending ==
    /\ Running("exception_offending")
    /\ result' = IF exc.tb_lineno <= program.nlines
                 THEN Append(result, OffendingEntry(ListIndex(program.nlines, exc.tb_lineno - 1)))
                 ELSE result
    /\ wpc' = "end"
    /\ UNCHANGED <<program, pc, timer, wstatus, wproc, exc, host, callerCwd, ret>>

\* The process ends: unsafe_execute returned, or an error left it.
WorkerExit ==
    /\ wstatus = "running"
    /\ wpc \in {"end", "uncaught"}
    /\ wstatus' = "exited"
    /\ UNCHANGED <<program, pc, result, timer, wpc, wproc, exc, host, callerCwd, ret>>

Worker ==
    \/ ExecParseError
    \/ ExecOp
    \/ ExecReturn
    \/ ExecRaise
    \/ ExecSyntaxError
    \/ ExecExit
    \/ AppendPassed
    \/ SyntaxHandler
    \/ SyntaxOffending
    \/ ExceptionHandler
    \/ ExceptionOffending
    \/ WorkerExit

----------------------------------------------------------------------------
\* The timer thread and the rest of the supervisor.

\* timer = Timer(timeout, p.terminate); timer.start()
TimerStart ==
    /\ pc = "timer_start"
    /\ timer' = "armed"
    /\ pc' = "join"
    /\ UNCHANGED <<program, result, wstatus, wpc, wproc, exc, host, callerCwd, ret>>

\* TimerFire with a cooperative request that a running process does not obey.
TimerFire_Cooperative ==
    /\ timer = "armed"
    /\ timer' = "fired"
    /\ UNCHANGED <<program, pc, result, wstatus, wpc, wproc, exc, host, callerCwd, ret>>

\* The deadline passes: the timer thread calls p.terminate(), which stops a
\* running process and does nothing to one that has ended.
TimerFire ==
    /\ timer = "armed"
    /\ timer' = "fired"
    /\ wstatus' = IF wstatus = "running" THEN "terminated" ELSE wstatus
    /\ UNCHANGED <<program, pc, result, wpc, wproc, exc, host, callerCwd, ret>>

\* Join that does not wait for the process to end.
Join_NoWait ==
    /\ pc = "join"
    /\ pc' = "cancel"
    /\ UNCHANGED <<program, result, timer, wstatus, wpc, wproc, exc, host, callerCwd, ret>>

\* p.join() returns once the process has ended.
Join ==
    /\ pc = "join"
    /\ wstatus \in {"exited", "terminated"}
    /\ pc' = "cancel"
    /\ UNCHANGED <<program, result, timer, wstatus, wpc, wproc, exc, host, callerCwd, ret>>

\* Cancel with timer.cancel() left out.
Cancel_Skip ==
    /\ pc = "cancel"
    /\ pc' = "inspect"
    /\ UNCHANGED <<program, result, timer, wstatus, wpc, wproc, exc, host, callerCwd, ret>>

\* timer.cancel()
Cancel ==
    /\ pc = "cancel"
    /\ timer' = IF timer = "armed" THEN "cancelled" ELSE timer
    /\ pc' = "inspect"
    /\ UNCHANGED <<program, result, wstatus, wpc, wproc, exc, host, callerCwd, ret>>

\* Inspect with "passed" as the entry given to an empty channel.
Inspect_DefaultPassed ==
    /\ pc = "inspect"
    /\ result' = IF result = <<>> THEN Append(result, Passed) ELSE result
    /\ pc' = "return"
    /\ UNCHANGED <<program, timer, wstatus, wpc, wproc, exc, host, callerCwd, ret>>

\* Inspect that decides a timeout by the timer having fired instead of by the
\* channel being empty.
Inspect_OnFired ==
    /\ pc = "inspect"
    /\ result' = IF timer = "fired" \/ result = <<>> THEN <<TimedOut>> ELSE result
    /\ pc' = "return"
    /\ UNCHANGED <<program, timer, wstatus, wpc, wproc, exc, host, callerCwd, ret>>

\* Inspect with the emptiness test left out.
Inspect_Unconditional ==
    /\ pc = "inspect"
    /\ result' = Append(result, TimedOut)
    /\ pc' = "return"
    /\ UNCHANGED <<program, timer, wstatus, wpc, wproc, exc, host, callerCwd, ret>>

\* if not result: result.append("timed out")
Inspect ==
    /\ pc = "inspect"
    /\ result' = IF result = <<>> THEN Append(result, TimedOut) ELSE result
    /\ pc' = "return"
    /\ UNCHANGED <<program, timer, wstatus, wpc, wproc, exc, host, callerCwd, ret>>

\* Return with the verdict taken from the channel being non-empty instead of
\* from its first entry.
Return_NonEmpty ==
    /\ pc = "return"
    /\ ret' = <<result # <<>>>>
    /\ pc' = "done"
    /\ UNCHANGED <<program, result, timer, wstatus, wpc, wproc, exc, host, callerCwd>>

\* return result[0] == "passed"
Return ==
    /\ pc = "return"
    /\ ret' = <<result[1] = Passed>>
    /\ pc' = "done"
    /\ UNCHANGED <<program, result, timer, wstatus, wpc, wproc, exc, host, callerCwd>>

Supervisor ==
    \/ Start
    \/ TimerStart
    \/ Join
    \/ Cancel
    \/ Inspect
    \/ Return

Next ==
    \/ Supervisor
    \/ Worker
    \/ TimerFire

Spec == Init /\ [][Next]_vars

\* The supervisor's thread and the timer thread are scheduled; the worker is
\* only as live as the text it runs, so nothing is assumed of it.
FairSpec == Spec /\ WF_vars(Supervisor) /\ WF_vars(TimerFire)

----------------------------------------------------------------------------
\* Properties.

\* The ExecutionResult of the invocation: the variant of the first entry.
ResultKind == result[1].kind

\* The text is still being executed by a live worker.
TextRunning == wstatus = "running" /\ wpc \in {"exec", "body"}

\* The worker was stopped by the timer while the text was still executing.
StoppedInText == wstatus = "terminated" /\ wpc \in {"exec", "body"}

\* C1: when check_correctness has returned, the returned boolean is true iff
\* the first entry of the channel is the passed verdict, and it is false when
\* that entry is a failed or a timed out verdict.
C1_TrueIffPassed ==
    pc = "done" =>
        /\ (ret = <<TRUE>>) <=> (ResultKind = "passed")
        /\ ResultKind \in {"failed", "timed out"} => ret = <<FALSE>>
        /\ ret \in {<<TRUE>>, <<FALSE>>}

C1_Witness == pc = "done" /\ ResultKind = "failed" /\ ret = <<FALSE>>

ExecCompleted == exc = NoExc /\ wpc \in {"append_passed", "end"}

VerdictEntries == {i \in 1..Len(result) : result[i].kind \in {"passed", "failed", "timed out"}}

C6_GuardBeforeExec ==
    (wstatus # "unstarted" /\ wpc \in {"exec", "body"}) => DisabledOps \subseteq wproc.disabled

\* The text has made a call that the restrictor or the suppressor is to stop.
AttemptedForbidden ==
    /\ program.op \in {"os.remove", "os.chmod", "subprocess.Popen", "stdin.read"}
    /\ wstatus # "unstarted"
    /\ wpc # "exec"

\* C7: an invocation whose text attempted a disabled operation or a read of
\* standard input never ends passed, is failed when the worker reported, and
\* leaves the host as it was.
C7_ForbiddenOpFails ==
    AttemptedForbidden =>
        /\ host = InitHost
        /\ pc = "done" => ResultKind # "passed"
        /\ (pc = "done" /\ wstatus = "exited") => ResultKind = "failed"

\* C8: the text executes only inside the directory sandbox and, within it,
\* the output suppressor, and both scopes are left once the text has ended.
C8_ExecInsideScopes ==
    /\ (wstatus # "unstarted" /\ wpc \in {"exec", "body"})
           => wproc.scopes = <<"create_tempdir", "swallow_io">>
    /\ (wstatus # "unstarted" /\ wpc \notin {"exec", "body"}) => wproc.scopes = <<>>

C10_NothingPropagates ==
    /\ wpc # "uncaught"
    /\ (wstatus = "exited" /\ exc # NoExc) => (result # <<>> /\ ResultKind = "failed")
    /\ pc = "done" => ResultKind \in {"passed", "failed", "timed out"}

\* C11: an invocation whose text raised an error while running, in a worker
\* that ran to its end, has a failed first entry that carries the class name
\* and the message of the raised error, and returns false.
C11_RaisedIsFailed ==
    (pc = "done" /\ wstatus = "exited" /\ exc # NoExc /\ program.ending # "parse") =>
        /\ ResultKind = "failed"
        /\ result[1].errorKind = exc.cls
        /\ result[1].detail = Str(exc)
        /\ ret = <<FALSE>>

\* C12: an invocation whose text does not compile, in a worker that ran to its
\* end, has a failed first entry that names SyntaxError and a line number that
\* is an integer from 1 on, and returns false.
C12_ParseErrorIsFailed ==
    (pc = "done" /\ wstatus = "exited" /\ program.ending = "parse") =>
        /\ ResultKind = "failed"
        /\ result[1].errorKind = "SyntaxError"
        /\ result[1].lineNumber # <<>>
        /\ result[1].lineNumber[1] >= 1
        /\ ret = <<FALSE>>

\* The worker process has ended.
Stopped == wstatus \in {"exited", "terminated"}

\* C13: the timer is started only once the worker is started, the join
\* completes only once the worker has ended, and timer.cancel() comes after
\* the join and has been made whenever the supervisor is past it, whether the
\* worker ended on its own or was terminated.
C13_StartTimerJoinCancel ==
    /\ timer # "unset" => wstatus # "unstarted"
    /\ pc = "start" <=> wstatus = "unstarted"
    /\ pc \in {"start", "timer_start"} <=> timer = "unset"
    /\ pc \in {"cancel", "inspect", "return", "done"} => Stopped
    /\ timer = "cancelled" => pc \in {"inspect", "return", "done"}
    /\ pc \in {"inspect", "return", "done"} => timer \in {"cancelled", "fired"}

C13_Witness == pc = "done" /\ timer = "cancelled" /\ wstatus = "exited"

\* The entries the worker wrote.
WorkerEntries == SelectSeq(result, LAMBDA x : x.kind # "timed out")

C15_TimedOutIffEmpty ==
    /\ (pc \in {"return", "done"} /\ WorkerEntries = <<>>) => result = <<TimedOut>>
    /\ (\E i \in 1..Len(result) : result[i] = TimedOut)
           => (result = <<TimedOut>> /\ pc \in {"return", "done"} /\ Stopped)
    /\ (pc = "done" /\ result = <<TimedOut>>) => ret = <<FALSE>>

C15_Witness == pc = "done" /\ wstatus = "exited" /\ wpc = "uncaught" /\ result = <<TimedOut>>

\* C16: in an invocation whose worker ran to its end with a failed verdict,
\* the offending line is in the channel exactly when the reported line number
\* lies in 1..(number of lines), is then the line of that number, and
\* unsafe_execute returned without a further error.
C16_OffendingIffInRange ==
    (pc = "done" /\ wstatus = "exited" /\ ResultKind = "failed") =>
        LET ln == result[1].lineNumber
            inRange == ln # <<>> /\ ln[1] >= 1 /\ ln[1] <= program.nlines
        IN  /\ wpc = "end"
            /\ Len(result) = 2 <=> inRange
            /\ Len(result) = 2 => result[2] = OffendingEntry(ln[1])

\* C17: the line number reported for a runtime error is the line of the
\* deepest frame of the text.
C17_DeepestTextFrame ==
    (result # <<>> /\ ResultKind = "failed" /\ exc.cls # "SyntaxError")
        => result[1].lineNumber = <<program.text_lineno>>

C20_LateFireChangesNothing ==
    /\ [][(timer = "armed" /\ timer' = "fired" /\ result # <<>>) => (result' = result)]_vars
    /\ [][result # <<>> => (result' # <<>> /\ result'[1] = result[1])]_vars
    /\ [](WorkerEntries # <<>> => result = WorkerEntries)
    /\ []((pc = "done" /\ WorkerEntries # <<>>) => ret = <<WorkerEntries[1] = Passed>>)

C20_Witness ==
    /\ pc = "done"
    /\ timer = "fired"
    /\ wstatus = "terminated"
    /\ wpc = "end"
    /\ result = <<Passed>>
    /\ ret = <<TRUE>>
====
